---- MODULE Spec2Model ----
(***************************************************************************)
(* The scene analyzer service (services/scene-analyzer/app.py): one        *)
(* /analyze request from arrival to its response.                          *)
(*                                                                         *)
(* Time is counted in ticks, TicksPerSec ticks to the second; a scene is   *)
(* the record [start, end, duration] of the source, in ticks.  A sample    *)
(* timestamp and a mean score are exact fractions <<numerator,             *)
(* denominator>> in lowest terms (Python floats, without their rounding).  *)
(* Scores are hundredths: 5 is 0.05, 100 is 1.0.                           *)
(***************************************************************************)
EXTENDS Integers, Sequences, FiniteSets, TLC

VARIABLES
    transnetv2_available, \* module global, set once by load_transnetv2()
    USE_GPU,              \* module global, from the environment
    ffmpeg_hwaccels,      \* module global, set once from detect_ffmpeg_hwaccel()
    ffmpeg_cuda_available, \* module global, set once from detect_ffmpeg_hwaccel()
    probe,                \* history: how `ffmpeg -hwaccels` ended at start-up
    REQUEST_COUNT,        \* Prometheus counter
    ERROR_COUNT,          \* Prometheus counter
    pc,                   \* position of the request handler
    req,                  \* the JSON body of the request
    video,                \* what the prober and the cut detectors report for the file
    scenes,               \* analyze_video: scenes
    current,              \* extract_scenes_sampling: current
    results,              \* analyze_video: results
    i,                    \* index of the scene being processed (1-based)
    timestamps,           \* sample timestamps of scene i
    j,                    \* index of the timestamp being processed (1-based)
    nudity_scores,
    immodesty_scores,
    violence_scores,
    files,                \* temp frame files present under /tmp/processing
    status,               \* HTTP status of the response, 0 while none
    handled,              \* TRUE when analyze_video itself wrote the response
    fault,                \* where the request failed: "none", "input", "segmentation", "scene"
    response,             \* body of the 200 response
    ffmpeg_runs,          \* history: the scene-detection runs of FFmpeg, in order
    extract_runs,         \* history: the FFmpeg runs of the last extract_frame call
    attempts,             \* history: the HTTP attempts of the last session.post
    peer,                 \* a second /analyze request, served by another thread
    calls,                \* history: what was attempted for the frames of the last sampled scene
    sceneLog              \* history: per aggregated scene, whether a scoring call was made / succeeded

vars == <<transnetv2_available, USE_GPU, ffmpeg_hwaccels, ffmpeg_cuda_available, probe,
          REQUEST_COUNT,
          ERROR_COUNT, pc, req, video, scenes, current, results, i, timestamps, j,
          nudity_scores, immodesty_scores, violence_scores, files, status, handled,
          fault, response, ffmpeg_runs, extract_runs, attempts, peer, calls,
          sceneLog>>

\* The module globals that start-up sets and no request changes.
startup == <<transnetv2_available, USE_GPU, ffmpeg_hwaccels, ffmpeg_cuda_available, probe>>

(***************************************************************************)
(* Bounds of the model.                                                    *)
(***************************************************************************)
TicksPerSec == 2
MaxDur == 4
MaxCuts == 1
MaxSampleCount == 2
MaxInterval == 2
SegMaxDur == 6
SegMaxCuts == 3

(***************************************************************************)
(* Program constants.                                                      *)
(***************************************************************************)
MIN_SCENE_TRANSNET == 1
MIN_SCENE_FFMPEG == 2
DEFAULT_INTERVAL == 30

(***************************************************************************)
(* Exact arithmetic.                                                       *)
(***************************************************************************)
RECURSIVE GCD(_, _)
GCD(a, b) == IF b = 0 THEN a ELSE GCD(b, a % b)

Frac(n, d) == LET g == GCD(n, d) IN <<n \div g, d \div g>>

FracLeq(a, b) == a[1] * b[2] <= b[1] * a[2]

FracMax(a, b) == IF FracLeq(a, b) THEN b ELSE a

Min(a, b) == IF a <= b THEN a ELSE b

RECURSIVE Sum(_)
Sum(s) == IF s = <<>> THEN 0 ELSE Head(s) + Sum(Tail(s))

(***************************************************************************)
(* Inputs.                                                                 *)
(***************************************************************************)
IncreasingSeqs(hi, n) ==
    {s \in UNION {[1..k -> 0..hi] : k \in 0..n} :
        \A a \in 1..(Len(s) - 1) : s[a] < s[a + 1]}

\* The file on disk as the external tools see it: the probed duration and the
\* cut timestamps the detector (FFmpeg showinfo / TransNetV2) reports, increasing
\* and not confined to the probed duration.
VideosOf(maxDur, maxCuts) ==
    {[duration |-> d, cuts |-> c] :
        d \in 0..maxDur, c \in IncreasingSeqs(maxDur + 2, maxCuts)}

Videos == VideosOf(MaxDur, MaxCuts)

\* A 10s file on which the detector reports cuts at 1.0s and 1.5s.
CloseCutsVideo ==
    [duration |-> 10 * TicksPerSec, cuts |-> <<TicksPerSec, (3 * TicksPerSec) \div 2>>]

\* A 90s file.
NinetySecondVideo == [duration |-> 90 * TicksPerSec, cuts |-> <<>>]

SegVideos == VideosOf(SegMaxDur, SegMaxCuts) \cup {CloseCutsVideo, NinetySecondVideo}

Methods == {"transnetv2", "ffmpeg", "sampling", "other"}

\* A request body: video_path is "absent", "missing" (no such file) or "ok".
\* sampling_interval is read by the sampling method alone.
RequestsOf(sampleCounts) ==
    {[video_path |-> "ok", method |-> m, sample_count |-> sc, sampling_interval |-> iv] :
        m \in Methods, sc \in sampleCounts,
        iv \in (-1)..MaxInterval \cup {DEFAULT_INTERVAL}}

\* An unknown method name differs from 'transnetv2' in extract_scenes alone,
\* which sends both the same way: it is requested without samples.
ValidRequests ==
    {r \in RequestsOf(0..MaxSampleCount) :
        /\ r.method # "sampling" => r.sampling_interval = DEFAULT_INTERVAL
        /\ r.method = "other" => r.sample_count = 0}

BadRequests ==
    {[video_path |-> p, method |-> "transnetv2", sample_count |-> 0,
      sampling_interval |-> DEFAULT_INTERVAL] : p \in {"absent", "missing"}}

Requests == ValidRequests \cup BadRequests

SegRequests == {r \in ValidRequests : r.sample_count = 0}

NoVideo == [duration |-> 0, cuts |-> <<>>]

\* dict.get(key, default)
get(d, key, default) == IF key \in DOMAIN d THEN d[key] ELSE default

\* nsfw-detector, analyze_image: the score of every category, a softmax output
\* (the scores of an image add up to 100 hundredths).
CategoryResults ==
    {[drawings |-> 0, hentai |-> 0, neutral |-> 100, porn |-> 0, sexy |-> 0],
     [drawings |-> 0, hentai |-> 35, neutral |-> 0, porn |-> 60, sexy |-> 5]}

\* nsfw-detector, /analyze: the scores of its 200 response.
nsfw_analyze(category_results) ==
    [nudity |-> get(category_results, "porn", 0) + get(category_results, "hentai", 0),
     immodesty |-> get(category_results, "sexy", 0)]

\* Response bodies of the two collaborators on status 200.  analyze_video
\* reads every score with a default, so a body need not hold it: the last body
\* is one without the nudity key.
NsfwBodies == {nsfw_analyze(c) : c \in CategoryResults} \cup {[immodesty |-> 5]}

ViolenceBodies == {[kind |-> "flat", violence |-> 0],
                   [kind |-> "map", general_violence |-> 5]}

\* How a scoring call ends: status 200 with a body, another status, or an
\* exception of the per-frame guard's classes (ConnectionError, Timeout,
\* RetryError once the retries on 502/503/504 are used up, a body that is no JSON).
\* A 200 body is a JSON object, as both collaborators of the repository send it.
CallOutcomes == {"ok", "non200", "raised"}

\* Retry(total=5, ...)
RETRY_TOTAL == 5

\* How one HTTP attempt ends: status 200, a status of status_forcelist
\* (502/503/504), another status (4xx, 500), or no response for a connection
\* error.
AttemptResults == {"200", "503", "500", "refused"}

\* Mutant: the session retries on every status but 200.
retried_any_failure(result) == result # "200"

\* The adapter tries again after a connection error and after a status of
\* status_forcelist (POST is among allowed_methods).
retried(result) == result \in {"503", "refused"}

\* A collaborator as the session meets it: how it would answer the first
\* attempt, the second, and so on.  It fails the first n attempts in one way
\* and answers the later ones in another.
ServerOf(n, failure, then) ==
    [k \in 1..(RETRY_TOTAL + 2) |-> IF k <= n THEN failure ELSE then]

Servers ==
    {ServerOf(n, failure, then) :
        n \in 0..(RETRY_TOTAL + 1), failure \in AttemptResults \ {"200"},
        then \in AttemptResults}

\* The collaborator answers every attempt alike.
SteadyServers == {ServerOf(0, "500", r) : r \in {"200", "500", "refused"}}

\* session.post: the attempts the session makes, the first and at most
\* RETRY_TOTAL more, up to the first one it does not retry.
session_post(server) ==
    LET stops == {k \in 1..(RETRY_TOTAL + 1) : ~retried(server[k])}
        last == IF stops = {} THEN RETRY_TOTAL + 1
                ELSE CHOOSE k \in stops : \A m \in stops : k <= m
    IN [k \in 1..last |-> server[k]]

\* What session.post gives analyze_video: the response of the last attempt, or
\* ConnectionError or RetryError when the retries are used up.
post_outcome(made) ==
    LET result == made[Len(made)]
    IN IF retried(result) THEN "raised"
       ELSE IF result = "200" THEN "ok" ELSE "non200"

(***************************************************************************)
(* Segmentation.                                                           *)
(***************************************************************************)
Scene(s, e, d) == [start |-> s, end |-> e, duration |-> d]

\* Mutant: the window loop takes every timestamp, however close to the last.
RECURSIVE scene_windows_unfiltered(_, _, _, _, _)
scene_windows_unfiltered(ts, prev_time, duration, min_len, acc) ==
    IF ts = <<>> THEN <<acc, prev_time>>
    ELSE LET timestamp == Head(ts)
         IN scene_windows_unfiltered(Tail(ts), timestamp, duration, min_len,
                Append(acc, Scene(prev_time, Min(timestamp, duration),
                                  Min(timestamp - prev_time, duration - prev_time))))

\* Mutant: a discarded timestamp moves the cursor as an accepted one does.
RECURSIVE scene_windows_cursor_moves(_, _, _, _, _)
scene_windows_cursor_moves(ts, prev_time, duration, min_len, acc) ==
    IF ts = <<>> THEN <<acc, prev_time>>
    ELSE LET timestamp == Head(ts)
         IN IF timestamp - prev_time >= min_len
            THEN scene_windows_cursor_moves(Tail(ts), timestamp, duration, min_len,
                     Append(acc, Scene(prev_time, Min(timestamp, duration),
                                       Min(timestamp - prev_time, duration - prev_time))))
            ELSE scene_windows_cursor_moves(Tail(ts), timestamp, duration, min_len, acc)

\* The "create scene windows" loop shared by extract_scenes_ffmpeg and
\* extract_scenes_transnetv2: returns <<scenes, prev_time>>.
RECURSIVE scene_windows(_, _, _, _, _)
scene_windows(ts, prev_time, duration, min_len, acc) ==
    IF ts = <<>> THEN <<acc, prev_time>>
    ELSE LET timestamp == Head(ts)
         IN IF timestamp - prev_time >= min_len
            THEN scene_windows(Tail(ts), timestamp, duration, min_len,
                     Append(acc, Scene(prev_time, Min(timestamp, duration),
                                       Min(timestamp - prev_time, duration - prev_time))))
            ELSE scene_windows(Tail(ts), prev_time, duration, min_len, acc)

\* "Add final scene".
final_scene(w, duration) ==
    IF w[2] < duration
    THEN Append(w[1], Scene(w[2], duration, duration - w[2]))
    ELSE w[1]

\* Mutant: the FFmpeg strategy with the 1 second minimum.
extract_scenes_ffmpeg_short_minimum(v) ==
    final_scene(scene_windows(v.cuts, 0, v.duration, MIN_SCENE_TRANSNET * TicksPerSec, <<>>),
                v.duration)

extract_scenes_ffmpeg(v) ==
    final_scene(scene_windows(v.cuts, 0, v.duration, MIN_SCENE_FFMPEG * TicksPerSec, <<>>),
                v.duration)

extract_scenes_transnetv2(v) ==
    final_scene(scene_windows(v.cuts, 0, v.duration, MIN_SCENE_TRANSNET * TicksPerSec, <<>>),
                v.duration)

\* Mutant: an empty scene list is passed on as it is.
whole_video_if_empty_skipped(sc, v) == sc

\* analyze_video: "if len(scenes) == 0" the whole video is one scene.
whole_video_if_empty(sc, v) ==
    IF Len(sc) = 0 THEN <<Scene(0, v.duration, v.duration)>> ELSE sc

\* extract_scenes: anything but 'ffmpeg' and 'sampling' runs the TransNetV2 path.
uses_transnetv2(m) == m \notin {"ffmpeg", "sampling"}

(***************************************************************************)
(* Frame sampling and aggregation (analyze_video, per scene).              *)
(***************************************************************************)
\* "scene_duration < sample_count": seconds against a count.
short_scene(scene, sample_count) ==
    scene.end - scene.start < sample_count * TicksPerSec

\* The even-spacing branch divides by sample_count - 1 on its first iteration.
sampling_raises(scene, sample_count) ==
    /\ ~short_scene(scene, sample_count)
    /\ sample_count >= 1
    /\ sample_count - 1 = 0

sample_timestamps(scene, sample_count) ==
    IF short_scene(scene, sample_count)
    THEN <<Frac(scene.start + scene.end, 2)>>
    ELSE [k \in 1..sample_count |->
             Frac(scene.start * (sample_count - 1)
                    + (scene.end - scene.start) * (k - 1),
                  sample_count - 1)]

\* Mutant: the file is named after the scene alone.
frame_path_by_scene(idx, timestamp) == <<idx - 1>>

\* f"/tmp/processing/scene_{i}_frame_{timestamp}.jpg", i counted from 0.
frame_path(idx, timestamp) == <<idx - 1, timestamp>>

\* violence_data.get('violence', 0): a number, or a map read with
\* .get('general_violence', 0).
violence_value(body) ==
    IF body.kind = "map" THEN get(body, "general_violence", 0)
    ELSE get(body, "violence", 0)

Zero == <<0, 1>>

\* Mutant: the scores of a scene are added up, not averaged.
average_sum(xs) == IF xs = <<>> THEN Zero ELSE Frac(Sum(xs), 1)

\* sum(xs) / len(xs) if xs else 0
average(xs) == IF xs = <<>> THEN Zero ELSE Frac(Sum(xs), Len(xs))

\* max([avg_nudity, avg_violence, avg_immodesty]) if any([...]) else 0
confidence_of(nud, vio, imm) ==
    IF nud # <<>> \/ vio # <<>> \/ imm # <<>>
    THEN FracMax(FracMax(average(nud), average(vio)), average(imm))
    ELSE Zero

analysis_of(nud, imm, vio) ==
    [nudity |-> average(nud), immodesty |-> average(imm),
     violence |-> average(vio), confidence |-> confidence_of(nud, vio, imm)]

scene_result(scene, a) ==
    [start |-> scene.start, end |-> scene.end, duration |-> scene.duration,
     analysis |-> a]

\* Mutant: a scene nothing was measured for is left out of the results.
results_after_scene_skipping(res, scene, a) ==
    IF a.confidence = Zero THEN res ELSE Append(res, scene_result(scene, a))

\* results.append(result)
results_after_scene(res, scene, a) == Append(res, scene_result(scene, a))

NoBody == [kind |-> "none"]

Call(frame, op, outcome, body) ==
    [frame |-> frame, op |-> op, outcome |-> outcome, body |-> body]

NoResponse == [scene_count |-> 0, scenes |-> <<>>]

\* `ffmpeg -hide_banner -hwaccels` at start-up: it lists the accelerators, or
\* fails (no ffmpeg binary, or a non-zero exit: one except clause for both).
ProbeResults ==
    {[exit |-> "ok", accels |-> <<"vdpau", "cuda">>],
     [exit |-> "failed", accels |-> <<>>]}

\* Mutant: a probe that fails is taken to have found CUDA.
detect_ffmpeg_hwaccel_assumes_cuda(p) ==
    IF p.exit = "failed" THEN <<<<"cuda">>, TRUE>>
    ELSE <<p.accels, \E k \in 1..Len(p.accels) : p.accels[k] = "cuda">>

\* detect_ffmpeg_hwaccel: <<accels, cuda_available>>.
detect_ffmpeg_hwaccel(p) ==
    IF p.exit = "failed" THEN <<<<>>, FALSE>>
    ELSE <<p.accels, \E k \in 1..Len(p.accels) : p.accels[k] = "cuda">>

\* The second request before it arrives: the locals of its analyze_video and
\* the frame paths it has written, read or deleted so far.
PeerIdle ==
    [pc |-> "idle", sample_count |-> 0, scenes |-> <<>>, i |-> 1, timestamps |-> <<>>,
     j |-> 1, touched |-> {}]

(***************************************************************************)
(* The state after start-up (__main__) and before a request arrives.       *)
(***************************************************************************)
Init ==
    /\ transnetv2_available \in BOOLEAN
    /\ USE_GPU \in BOOLEAN
    /\ \E p \in ProbeResults :
        /\ probe = p
        /\ ffmpeg_hwaccels = detect_ffmpeg_hwaccel(p)[1]
        /\ ffmpeg_cuda_available = detect_ffmpeg_hwaccel(p)[2]
    /\ ffmpeg_runs = <<>>
    /\ extract_runs = <<>>
    /\ attempts = <<>>
    /\ peer = PeerIdle
    /\ REQUEST_COUNT = 0
    /\ ERROR_COUNT = 0
    /\ pc = "idle"
    /\ req = [video_path |-> "absent", method |-> "transnetv2", sample_count |-> 0,
              sampling_interval |-> DEFAULT_INTERVAL]
    /\ video = NoVideo
    /\ scenes = <<>>
    /\ current = 0
    /\ results = <<>>
    /\ i = 1
    /\ timestamps = <<>>
    /\ j = 1
    /\ nudity_scores = <<>>
    /\ immodesty_scores = <<>>
    /\ violence_scores = <<>>
    /\ files = {}
    /\ status = 0
    /\ handled = FALSE
    /\ fault = "none"
    /\ response = NoResponse
    /\ calls = {}
    /\ sceneLog = <<>>

sceneVars == <<results, i, timestamps, j, nudity_scores, immodesty_scores,
               violence_scores, files, calls, sceneLog, extract_runs, attempts, peer>>

\* The request ends with `code`; `own` tells whether analyze_video's own
\* handlers wrote the response (and counted the error) or the exception left
\* analyze_video for the framework's 500.
Fail(code, own, where) ==
    /\ status' = code
    /\ handled' = own
    /\ fault' = where
    /\ ERROR_COUNT' = IF own THEN ERROR_COUNT + 1 ELSE ERROR_COUNT
    /\ pc' = "done"

(***************************************************************************)
(* analyze_video up to the segmentation.                                   *)
(***************************************************************************)
\* Mutant: the os.path.exists check is left out.
Receive_unchecked_path(R, V) ==
    /\ pc = "idle"
    /\ \E r \in R, v \in V :
        /\ (r.method = "sampling" \/ r.video_path # "ok") => v.cuts = <<>>
        /\ r.video_path # "ok" => v = NoVideo
        /\ req' = r
        /\ video' = v
        /\ REQUEST_COUNT' = REQUEST_COUNT + 1
        /\ IF r.video_path = "absent" THEN Fail(400, TRUE, "input")
           ELSE /\ pc' = "segment"
                /\ UNCHANGED <<status, handled, fault, ERROR_COUNT>>
    /\ UNCHANGED <<startup, scenes, current, response, ffmpeg_runs>>
    /\ UNCHANGED sceneVars

Receive(R, V) ==
    /\ pc = "idle"
    /\ \E r \in R, v \in V :
        /\ (r.method = "sampling" \/ r.video_path # "ok") => v.cuts = <<>>
        /\ r.video_path # "ok" => v = NoVideo
        /\ req' = r
        /\ video' = v
        /\ REQUEST_COUNT' = REQUEST_COUNT + 1
        /\ IF r.video_path = "absent" THEN Fail(400, TRUE, "input")
           ELSE IF r.video_path = "missing" THEN Fail(404, TRUE, "input")
           ELSE /\ pc' = "segment"
                /\ UNCHANGED <<status, handled, fault, ERROR_COUNT>>
    /\ UNCHANGED <<startup, scenes, current, response, ffmpeg_runs>>
    /\ UNCHANGED sceneVars

\* predict_video raises: an exception of a class analyze_video names (own =
\* TRUE) or of any other class.
SegmentModelRaises ==
    /\ pc = "segment"
    /\ uses_transnetv2(req.method)
    /\ transnetv2_available
    /\ \E own \in BOOLEAN : Fail(500, own, "segmentation")
    /\ UNCHANGED <<startup, REQUEST_COUNT, req, video, scenes, current,
                   response, ffmpeg_runs>>
    /\ UNCHANGED sceneVars

\* get_video_duration: ffprobe exits non-zero or prints no number
\* (CalledProcessError, ValueError), re-raised by every strategy.
ProbeFails ==
    /\ pc = "segment"
    /\ uses_transnetv2(req.method) => transnetv2_available
    /\ Fail(500, TRUE, "segmentation")
    /\ UNCHANGED <<startup, REQUEST_COUNT, req, video, scenes, current,
                   response, ffmpeg_runs>>
    /\ UNCHANGED sceneVars

Segmented(sc) ==
    /\ scenes' = whole_video_if_empty(sc, video)
    /\ pc' = "scene"
    /\ UNCHANGED <<startup, REQUEST_COUNT, ERROR_COUNT, req, video,
                   status, handled, fault, response>>
    /\ UNCHANGED sceneVars

\* Mutant: with the model not loaded the FFmpeg strategy is run in its place.
SegmentUnavailable_ffmpeg ==
    /\ pc = "segment"
    /\ uses_transnetv2(req.method)
    /\ ~transnetv2_available
    /\ Segmented(extract_scenes_ffmpeg(video))
    /\ UNCHANGED <<current, ffmpeg_runs>>

\* extract_scenes_transnetv2 with the model not loaded: RuntimeError, which the
\* except clause of analyze_video does not name.
SegmentUnavailable ==
    /\ pc = "segment"
    /\ uses_transnetv2(req.method)
    /\ ~transnetv2_available
    /\ Fail(500, FALSE, "segmentation")
    /\ UNCHANGED <<startup, REQUEST_COUNT, req, video, scenes, current,
                   response, ffmpeg_runs>>
    /\ UNCHANGED sceneVars

SegmentTransnet ==
    /\ pc = "segment"
    /\ uses_transnetv2(req.method)
    /\ transnetv2_available
    /\ Segmented(extract_scenes_transnetv2(video))
    /\ UNCHANGED <<current, ffmpeg_runs>>

\* ffmpeg_gpu_args() returns a non-empty list.
ffmpeg_gpu_args == USE_GPU /\ ffmpeg_cuda_available

Run(hw, code) == [hwaccel |-> hw, returncode |-> code]

\* Mutant: a failed first run is retried whether or not it used the GPU.
ffmpeg_run_sequences_always_retry(gpu_args) ==
    {<<Run(gpu_args, 0)>>} \cup {<<Run(gpu_args, 1), Run(FALSE, code)>> : code \in {0, 1}}

\* The subprocess.run calls of extract_scenes_ffmpeg (check=False): one run,
\* and a second one without the GPU arguments when the first, made with them,
\* exits non-zero.  returncode is 0, 1 (any non-zero code) or, for a run that
\* could not start because there is no ffmpeg binary, -1.
ffmpeg_run_sequences(gpu_args) ==
    IF gpu_args
    THEN {<<Run(TRUE, 0)>>} \cup {<<Run(TRUE, 1), Run(FALSE, code)>> : code \in {0, 1}}
    ELSE {<<Run(FALSE, code)>> : code \in {0, 1}}

\* The pts_time values on the stderr of `result`: every cut of the file when
\* the run exited 0, those printed before it died otherwise.
stderr_timestamps(result, cuts) ==
    IF result.returncode = 0 THEN {cuts}
    ELSE {SubSeq(cuts, 1, k) : k \in 0..Len(cuts)}

\* What extract_scenes_ffmpeg does with `result`: its return code is not
\* looked at again, stderr is parsed whatever it is.
ffmpeg_result(runs) ==
    \E ts \in stderr_timestamps(runs[Len(runs)], video.cuts) :
        Segmented(extract_scenes_ffmpeg([video EXCEPT !.cuts = ts]))

SegmentFfmpeg ==
    /\ pc = "segment"
    /\ req.method = "ffmpeg"
    /\ \E runs \in ffmpeg_run_sequences(ffmpeg_gpu_args) :
        /\ ffmpeg_runs' = runs
        /\ ffmpeg_result(runs)
    /\ UNCHANGED current

\* subprocess.run finds no ffmpeg binary: FileNotFoundError, re-raised by
\* extract_scenes_ffmpeg and named by the except clause of analyze_video.
SegmentFfmpegMissing ==
    /\ pc = "segment"
    /\ req.method = "ffmpeg"
    /\ ffmpeg_runs' = <<Run(ffmpeg_gpu_args, -1)>>
    /\ Fail(500, TRUE, "segmentation")
    /\ UNCHANGED <<startup, REQUEST_COUNT, req, video, scenes, current, response>>
    /\ UNCHANGED sceneVars

\* extract_scenes_sampling: the while loop, one iteration a step.
LoopCap == SegMaxDur + 2

SamplingStart ==
    /\ pc = "segment"
    /\ req.method = "sampling"
    /\ pc' = "sampling_loop"
    /\ current' = 0
    /\ scenes' = <<>>
    /\ UNCHANGED <<startup, REQUEST_COUNT, ERROR_COUNT, req, video,
                   status, handled, fault, response, ffmpeg_runs>>
    /\ UNCHANGED sceneVars

\* Mutant: the end of a scene is not clamped to the duration.
next_time_of_unclamped(cur, interval_seconds, duration) ==
    cur + interval_seconds * TicksPerSec

next_time_of(cur, interval_seconds, duration) ==
    Min(cur + interval_seconds * TicksPerSec, duration)

SamplingIter ==
    /\ pc = "sampling_loop"
    /\ current < video.duration
    /\ Len(scenes) < LoopCap
    /\ LET next_time == next_time_of(current, req.sampling_interval, video.duration)
       IN /\ scenes' = Append(scenes, Scene(current, next_time, next_time - current))
          /\ current' = next_time
    /\ UNCHANGED <<startup, REQUEST_COUNT, ERROR_COUNT, pc, req, video,
                   status, handled, fault, response, ffmpeg_runs>>
    /\ UNCHANGED sceneVars

SamplingDone ==
    /\ pc = "sampling_loop"
    /\ ~(current < video.duration)
    /\ Segmented(scenes)
    /\ UNCHANGED <<current, ffmpeg_runs>>

(***************************************************************************)
(* analyze_video: the loop over the scenes.                                *)
(***************************************************************************)
reqVars == <<startup, REQUEST_COUNT, req, video, scenes, current, ffmpeg_runs, peer>>

\* Sampling of scene i; the score lists start empty.
SampleScene ==
    /\ pc = "scene"
    /\ i <= Len(scenes)
    /\ ~sampling_raises(scenes[i], req.sample_count)
    /\ timestamps' = sample_timestamps(scenes[i], req.sample_count)
    /\ j' = 1
    /\ nudity_scores' = <<>>
    /\ immodesty_scores' = <<>>
    /\ violence_scores' = <<>>
    /\ calls' = {}
    /\ pc' = "frame"
    /\ UNCHANGED reqVars
    /\ UNCHANGED <<ERROR_COUNT, results, i, files, status, handled, fault, response,
                   sceneLog, extract_runs, attempts>>

\* ZeroDivisionError in the sampling of scene i: neither the per-scene except
\* clause nor the one of analyze_video names it.
SampleSceneRaises ==
    /\ pc = "scene"
    /\ i <= Len(scenes)
    /\ sampling_raises(scenes[i], req.sample_count)
    /\ Fail(500, FALSE, "scene")
    /\ UNCHANGED reqVars
    /\ UNCHANGED <<response>>
    /\ UNCHANGED sceneVars

\* The request is as far from its response as it was.
no_response == UNCHANGED <<ERROR_COUNT, status, handled, fault>>

\* Mutant: the per-frame except clause leaves the frame loop (break).
next_frame_after_error_break ==
    /\ j' = Len(timestamps) + 1
    /\ pc' = "frame"
    /\ no_response

\* Mutant: the per-frame except clause fails the request.
next_frame_after_error_abort ==
    /\ j' = j
    /\ Fail(500, TRUE, "scene")

\* What the per-frame except clause does: log and continue with the next timestamp.
next_frame_after_error ==
    /\ j' = j + 1
    /\ pc' = "frame"
    /\ no_response

frameUnchanged == <<results, i, timestamps, response, sceneLog>>

\* The subprocess.run calls of extract_frame: as in extract_scenes_ffmpeg one
\* run, and one more without the GPU arguments when the first, made with them,
\* exits non-zero; or no ffmpeg binary to run.
extract_run_sequences(gpu_args) ==
    ffmpeg_run_sequences(gpu_args) \cup {<<Run(gpu_args, -1)>>}

\* extract_frame returns the path: the first run exited 0, or the retry did
\* (check=True); otherwise CalledProcessError or FileNotFoundError is raised.
extract_frame_returns(runs) == runs[Len(runs)].returncode = 0

\* extract_frame: the frame is written, or an exception is raised.
ExtractFrame ==
    /\ pc = "frame"
    /\ j <= Len(timestamps)
    /\ \E runs \in extract_run_sequences(ffmpeg_gpu_args) :
        /\ extract_runs' = runs
        /\ IF extract_frame_returns(runs)
           THEN /\ files' = files \cup {frame_path(i, timestamps[j])}
                /\ calls' = calls \cup {Call(j, "extract", "ok", NoBody)}
                /\ pc' = "nsfw"
                /\ j' = j
                /\ no_response
           ELSE /\ calls' = calls \cup {Call(j, "extract", "raised", NoBody)}
                /\ next_frame_after_error
                /\ files' = files
    /\ UNCHANGED reqVars
    /\ UNCHANGED frameUnchanged
    /\ UNCHANGED <<nudity_scores, immodesty_scores, violence_scores, attempts>>

\* session.post to the NSFW detector and the handling of its response.
CallNsfw(S) ==
    /\ pc = "nsfw"
    /\ \E server \in S, body \in NsfwBodies :
        LET made == session_post(server)
            outcome == post_outcome(made)
            op == "nsfw"
        IN /\ attempts' = made
           /\ \/ /\ outcome = "ok"
                 /\ nudity_scores' = Append(nudity_scores, get(body, "nudity", 0))
                 /\ immodesty_scores' = Append(immodesty_scores, get(body, "immodesty", 0))
                 /\ calls' = calls \cup {Call(j, op, "ok", body)}
                 /\ pc' = "violence"
                 /\ j' = j
                 /\ no_response
              \/ /\ outcome = "non200"
                 /\ calls' = calls \cup {Call(j, op, "non200", NoBody)}
                 /\ pc' = "violence"
                 /\ no_response
                 /\ UNCHANGED <<nudity_scores, immodesty_scores, j>>
              \/ /\ outcome = "raised"
                 /\ calls' = calls \cup {Call(j, op, "raised", NoBody)}
                 /\ next_frame_after_error
                 /\ UNCHANGED <<nudity_scores, immodesty_scores>>
    /\ UNCHANGED reqVars
    /\ UNCHANGED frameUnchanged
    /\ UNCHANGED <<violence_scores, files, extract_runs>>

\* session.post to the content classifier and the handling of its response.
CallViolence(S) ==
    /\ pc = "violence"
    /\ \E server \in S, body \in ViolenceBodies :
        LET made == session_post(server)
            outcome == post_outcome(made)
            op == "violence"
        IN /\ attempts' = made
           /\ \/ /\ outcome = "ok"
                 /\ violence_scores' = Append(violence_scores, violence_value(body))
                 /\ calls' = calls \cup {Call(j, op, "ok", body)}
                 /\ pc' = "remove"
                 /\ j' = j
                 /\ no_response
              \/ /\ outcome = "non200"
                 /\ calls' = calls \cup {Call(j, op, "non200", NoBody)}
                 /\ pc' = "remove"
                 /\ no_response
                 /\ UNCHANGED <<violence_scores, j>>
              \/ /\ outcome = "raised"
                 /\ calls' = calls \cup {Call(j, op, "raised", NoBody)}
                 /\ next_frame_after_error
                 /\ UNCHANGED <<violence_scores>>
    /\ UNCHANGED reqVars
    /\ UNCHANGED frameUnchanged
    /\ UNCHANGED <<nudity_scores, immodesty_scores, files, extract_runs>>

\* Mutant: the frame is removed as soon as the NSFW detector has answered,
\* ahead of the upload to the content classifier.
RemoveFrame_before_violence ==
    /\ \/ /\ pc = "violence"
          /\ frame_path(i, timestamps[j]) \in files
          /\ UNCHANGED <<j, pc>>
       \/ /\ pc = "remove"
          /\ j' = j + 1
          /\ pc' = "frame"
    /\ files' = files \ {frame_path(i, timestamps[j])}
    /\ no_response
    /\ UNCHANGED reqVars
    /\ UNCHANGED frameUnchanged
    /\ UNCHANGED <<nudity_scores, immodesty_scores, violence_scores, calls,
                   extract_runs, attempts>>

\* os.remove(frame_path), the last statement of the per-frame try block.
RemoveFrame ==
    /\ pc = "remove"
    /\ files' = files \ {frame_path(i, timestamps[j])}
    /\ j' = j + 1
    /\ pc' = "frame"
    /\ no_response
    /\ UNCHANGED reqVars
    /\ UNCHANGED frameUnchanged
    /\ UNCHANGED <<nudity_scores, immodesty_scores, violence_scores, calls,
                   extract_runs, attempts>>

ScoringCalls == {c \in calls : c.op \in {"nsfw", "violence"}}

\* The averages of scene i and its result.
Aggregate ==
    /\ pc = "frame"
    /\ j > Len(timestamps)
    /\ results' = results_after_scene(results, scenes[i],
                      analysis_of(nudity_scores, immodesty_scores, violence_scores))
    /\ sceneLog' = Append(sceneLog,
                      [called |-> ScoringCalls # {},
                       succeeded |-> \E c \in ScoringCalls : c.outcome = "ok"])
    /\ i' = i + 1
    /\ pc' = "scene"
    /\ UNCHANGED reqVars
    /\ UNCHANGED <<ERROR_COUNT, timestamps, j, nudity_scores, immodesty_scores,
                   violence_scores, files, status, handled, fault, response, calls,
                   extract_runs, attempts>>

\* return jsonify({... 'scene_count': len(scenes), 'scenes': results ...})
Respond ==
    /\ pc = "scene"
    /\ i > Len(scenes)
    /\ status' = 200
    /\ handled' = TRUE
    /\ response' = [scene_count |-> Len(scenes), scenes |-> results]
    /\ pc' = "done"
    /\ UNCHANGED reqVars
    /\ UNCHANGED <<ERROR_COUNT, fault>>
    /\ UNCHANGED sceneVars

\* subprocess.run and subprocess.check_output are called without a timeout
\* argument throughout.
subprocess_has_timeout == FALSE

\* ffprobe (in the segmentation) or ffmpeg (in the segmentation, or extracting
\* the frame of the current timestamp) does not return.  With a timeout the
\* call would raise; without one the handler waits for ever.
SubprocessUnresponsive ==
    /\ \/ pc = "segment" /\ (uses_transnetv2(req.method) => transnetv2_available)
       \/ pc = "frame" /\ j <= Len(timestamps)
    /\ ~subprocess_has_timeout
    /\ pc' = "blocked"
    /\ UNCHANGED <<ERROR_COUNT, status, handled, fault, response>>
    /\ UNCHANGED reqVars
    /\ UNCHANGED sceneVars

(***************************************************************************)
(* A second request in another thread of the server (app.run serves each   *)
(* request in a thread of its own).  It runs the same analyze_video, with  *)
(* the FFmpeg strategy; the threads share the directory /tmp/processing.   *)
(***************************************************************************)
ownVars == <<ERROR_COUNT, pc, req, video, scenes, current, results, i, timestamps, j,
             nudity_scores, immodesty_scores, violence_scores, status, handled, fault,
             response, ffmpeg_runs, extract_runs, attempts, calls, sceneLog>>

peer_frame_path == frame_path(peer.i, peer.timestamps[peer.j])

\* The request arrives and is segmented.
PeerReceive(R, V) ==
    /\ peer.pc = "idle"
    /\ \E r \in R, v \in V :
        peer' = [peer EXCEPT !.pc = "scene",
                             !.sample_count = r.sample_count,
                             !.scenes = whole_video_if_empty(extract_scenes_ffmpeg(v), v)]
    /\ REQUEST_COUNT' = REQUEST_COUNT + 1
    /\ UNCHANGED <<startup, files>>
    /\ UNCHANGED ownVars

PeerSampleScene ==
    /\ peer.pc = "scene"
    /\ peer.i <= Len(peer.scenes)
    /\ peer' = IF sampling_raises(peer.scenes[peer.i], peer.sample_count)
               THEN [peer EXCEPT !.pc = "done"]
               ELSE [peer EXCEPT !.pc = "frame", !.j = 1,
                                 !.timestamps = sample_timestamps(peer.scenes[peer.i],
                                                                  peer.sample_count)]
    /\ UNCHANGED <<startup, REQUEST_COUNT, files>>
    /\ UNCHANGED ownVars

\* extract_frame writes the file (ffmpeg -y), or raises.
PeerExtractFrame ==
    /\ peer.pc = "frame"
    /\ peer.j <= Len(peer.timestamps)
    /\ \E ok \in BOOLEAN :
        IF ok
        THEN /\ files' = files \cup {peer_frame_path}
             /\ peer' = [peer EXCEPT !.pc = "scoring",
                                     !.touched = @ \cup {peer_frame_path}]
        ELSE /\ files' = files
             /\ peer' = [peer EXCEPT !.j = @ + 1]
    /\ UNCHANGED <<startup, REQUEST_COUNT>>
    /\ UNCHANGED ownVars

\* The two uploads of the frame: both done, or an exception on the way.
PeerScoreFrame ==
    /\ peer.pc = "scoring"
    /\ \E raised \in BOOLEAN :
        peer' = IF raised THEN [peer EXCEPT !.pc = "frame", !.j = @ + 1]
                ELSE [peer EXCEPT !.pc = "remove"]
    /\ UNCHANGED <<startup, REQUEST_COUNT, files>>
    /\ UNCHANGED ownVars

\* os.remove(frame_path); when the file is gone already the FileNotFoundError is
\* caught by the per-frame except clause, with the same continuation.
PeerRemoveFrame ==
    /\ peer.pc = "remove"
    /\ files' = files \ {peer_frame_path}
    /\ peer' = [peer EXCEPT !.pc = "frame", !.j = @ + 1]
    /\ UNCHANGED <<startup, REQUEST_COUNT>>
    /\ UNCHANGED ownVars

PeerAggregate ==
    /\ peer.pc = "frame"
    /\ peer.j > Len(peer.timestamps)
    /\ peer' = [peer EXCEPT !.pc = "scene", !.i = @ + 1]
    /\ UNCHANGED <<startup, REQUEST_COUNT, files>>
    /\ UNCHANGED ownVars

PeerRespond ==
    /\ peer.pc = "scene"
    /\ peer.i > Len(peer.scenes)
    /\ peer' = [peer EXCEPT !.pc = "done"]
    /\ UNCHANGED <<startup, REQUEST_COUNT, files>>
    /\ UNCHANGED ownVars

(***************************************************************************)
(* Specifications.                                                         *)
(***************************************************************************)
Segmentation ==
    \/ SegmentUnavailable
    \/ SegmentModelRaises
    \/ ProbeFails
    \/ SegmentTransnet
    \/ SegmentFfmpeg
    \/ SegmentFfmpegMissing
    \/ SamplingStart
    \/ SamplingIter
    \/ SamplingDone

Next ==
    \/ Receive(Requests, Videos)
    \/ Segmentation
    \/ SampleScene
    \/ SampleSceneRaises
    \/ ExtractFrame
    \/ CallNsfw(SteadyServers)
    \/ CallViolence(SteadyServers)
    \/ RemoveFrame
    \/ Aggregate
    \/ Respond
    \/ SubprocessUnresponsive

Spec == Init /\ [][Next]_vars

\* The segmentation alone, over longer videos with more cuts.
NextSeg ==
    \/ Receive(SegRequests, SegVideos)
    \/ Segmentation

SpecSeg == Init /\ [][NextSeg]_vars

\* Two requests at a time, both with the FFmpeg strategy on a 1s file without
\* cuts.
ConcRequests == {r \in ValidRequests : r.method = "ffmpeg" /\ r.sample_count >= 1}

ConcVideos == {v \in Videos : v.cuts = <<>> /\ v.duration = TicksPerSec}

NextConc ==
    \/ Receive(ConcRequests, ConcVideos)
    \/ ProbeFails
    \/ SegmentFfmpeg
    \/ SegmentFfmpegMissing
    \/ SampleScene
    \/ SampleSceneRaises
    \/ ExtractFrame
    \/ CallNsfw(SteadyServers)
    \/ CallViolence(SteadyServers)
    \/ RemoveFrame
    \/ Aggregate
    \/ Respond
    \/ PeerReceive(ConcRequests, ConcVideos)
    \/ PeerSampleScene
    \/ PeerExtractFrame
    \/ PeerScoreFrame
    \/ PeerRemoveFrame
    \/ PeerAggregate
    \/ PeerRespond

SpecConc == Init /\ [][NextConc]_vars

\* One request with the FFmpeg strategy on a 1s file without cuts, against
\* collaborators that answer the successive attempts in every way.
NextRetry ==
    \/ Receive(ConcRequests, ConcVideos)
    \/ ProbeFails
    \/ SegmentFfmpeg
    \/ SegmentFfmpegMissing
    \/ SampleScene
    \/ SampleSceneRaises
    \/ ExtractFrame
    \/ CallNsfw(Servers)
    \/ CallViolence(Servers)
    \/ RemoveFrame
    \/ Aggregate
    \/ Respond

SpecRetry == Init /\ [][NextRetry]_vars

(***************************************************************************)
(* Properties.                                                             *)
(***************************************************************************)
InFrameLoop == pc \in {"frame", "nsfw", "violence", "remove"}

ZeroAnalysis == [nudity |-> Zero, immodesty |-> Zero, violence |-> Zero,
                 confidence |-> Zero]

\* The scenes are ordered by start, contiguous, start at 0 and end at d.
Covers(sc, d) ==
    /\ Len(sc) >= 1
    /\ sc[1].start = 0
    /\ sc[Len(sc)].end = d
    /\ \A k \in 1..Len(sc) : sc[k].start <= sc[k].end
    /\ \A k \in 1..(Len(sc) - 1) :
        /\ sc[k].end = sc[k + 1].start
        /\ sc[k].start <= sc[k + 1].start

\* C1: for every segmentation method and every duration D, the scenes handed to
\* the scene loop are ordered by start, contiguous, the first starts at 0 and the
\* last ends at D.
C1_ScenesCoverVideo == pc = "scene" => Covers(scenes, video.duration)

\* C2: a request answered 200 carries exactly one result per segmented scene, in
\* segmentation order, result k with the start, end and duration of scene k, and
\* scene_count is the length of that list.
C2_OneResultPerScene ==
    status = 200 =>
        /\ response.scene_count = Len(response.scenes)
        /\ Len(response.scenes) = Len(scenes)
        /\ \A k \in 1..Len(scenes) :
            /\ response.scenes[k].start = scenes[k].start
            /\ response.scenes[k].end = scenes[k].end
            /\ response.scenes[k].duration = scenes[k].duration

\* C2 witness: a 200 response over two scenes, one of which no call scored.
C2_Witness ==
    /\ status = 200
    /\ Len(scenes) = 2
    /\ \E k \in 1..2 : sceneLog[k].called /\ ~sceneLog[k].succeeded
    /\ \E k \in 1..2 : sceneLog[k].succeeded

\* C3: when the NSFW call of a frame fails in any way, the violence call of that
\* frame is still made (stated for every frame whose processing is over).
C3_ViolenceStillCalled ==
    \A c \in calls :
        (c.op = "nsfw" /\ c.outcome # "ok" /\ c.frame < j)
            => \E d \in calls : d.op = "violence" /\ d.frame = c.frame

\* C4: a temp frame file exists only while its own frame is being scored: every
\* exit path of a frame's processing deletes it, and none is left when the
\* request has ended.
C4_FrameFilesDeleted ==
    \A f \in files :
        /\ pc \in {"nsfw", "violence", "remove"}
        /\ f = frame_path(i, timestamps[j])

\* C5: once segmentation has succeeded, a failure inside one scene never aborts
\* the request: it ends 200 with a result for every scene.
C5_SceneFailureContained ==
    (pc = "done" /\ fault \notin {"input", "segmentation"})
        => status = 200 /\ Len(response.scenes) = Len(scenes)

\* The scores the log holds for the last sampled scene, as <<frame, value>> pairs.
LoggedNudity ==
    {<<c.frame, get(c.body, "nudity", 0)>> : c \in {d \in calls : d.op = "nsfw" /\ d.outcome = "ok"}}

LoggedImmodesty ==
    {<<c.frame, get(c.body, "immodesty", 0)>> : c \in {d \in calls : d.op = "nsfw" /\ d.outcome = "ok"}}

LoggedViolence ==
    {<<c.frame, violence_value(c.body)>> :
        c \in {d \in calls : d.op = "violence" /\ d.outcome = "ok"}}

RECURSIVE SumPairs(_)
SumPairs(S) ==
    IF S = {} THEN 0
    ELSE LET x == CHOOSE y \in S : TRUE IN x[2] + SumPairs(S \ {x})

MeanOfLogged(S) == IF S = {} THEN Zero ELSE Frac(SumPairs(S), Cardinality(S))

\* Frame f of the scene being processed has had its turn.
FrameOver(f) == f < j

Attempted(f) == \E c \in calls : c.op = "extract" /\ c.frame = f

Extracted(f) == \E c \in calls : c.op = "extract" /\ c.frame = f /\ c.outcome = "ok"

Scored(f, op) == \E c \in calls : c.op = op /\ c.frame = f

C8_ConfidenceDiscriminates ==
    \A k \in 1..Len(sceneLog) :
        k <= Len(results) =>
            /\ FracLeq(Zero, results[k].analysis.confidence)
            /\ results[k].analysis.confidence = Zero => ~sceneLog[k].succeeded

\* C9: sampling returns at least one timestamp, and every timestamp lies within
\* [scene.start, scene.end].
C9_SamplingFloor ==
    InFrameLoop =>
        /\ Len(timestamps) >= 1
        /\ \A k \in 1..Len(timestamps) :
            /\ FracLeq(<<scenes[i].start, 1>>, timestamps[k])
            /\ FracLeq(timestamps[k], <<scenes[i].end, 1>>)

C11_SegmentationFailureHandled ==
    (pc = "done" /\ fault = "segmentation") => (status = 500 /\ handled)

LastRunFailed ==
    /\ ffmpeg_runs # <<>>
    /\ ffmpeg_runs[Len(ffmpeg_runs)].returncode # 0

\* C12: when the FFmpeg scene detection cannot start (no binary) or its last
\* run (the software-decode retry, when there is one) exits non-zero, the
\* request fails in segmentation; it never goes on with scenes.
C12_SubprocessErrorSurfaced ==
    LastRunFailed => (pc = "done" /\ fault = "segmentation" /\ status = 500)

\* Nothing was segmented, extracted or scored, and the request was handled once.
NoWorkDone ==
    /\ pc = "done"
    /\ fault = "input"
    /\ handled
    /\ scenes = <<>>
    /\ current = 0
    /\ ffmpeg_runs = <<>>
    /\ results = <<>>
    /\ calls = {}
    /\ files = {}
    /\ sceneLog = <<>>
    /\ REQUEST_COUNT = 1
    /\ ERROR_COUNT = 1

\* C13: a request without video_path is answered 400 and one whose video_path
\* names no file 404, and in both cases the answer is given at once: no
\* segmentation, no frame extraction, no scoring call, no second attempt.
C13_InputErrorsImmediate ==
    /\ (pc # "idle" /\ req.video_path = "absent") => (status = 400 /\ NoWorkDone)
    /\ (pc # "idle" /\ req.video_path = "missing") => (status = 404 /\ NoWorkDone)
    /\ status \in {400, 404} => req.video_path \in {"absent", "missing"}

C13_Witness ==
    /\ pc = "done"
    /\ req.video_path = "missing"
    /\ status = 404
    /\ ~transnetv2_available

\* The minimum scene length of the requested strategy, in ticks.
MinimumOf(m) ==
    IF m = "ffmpeg" THEN MIN_SCENE_FFMPEG * TicksPerSec
    ELSE MIN_SCENE_TRANSNET * TicksPerSec

\* C14 as stated: every scene of the segmentation lasts at least the minimum
\* of its strategy (1.0s TransNetV2, 2.0s FFmpeg); the scenes of the sampling
\* strategy all last the interval, except that the last may be shorter.
C14_MinimumSceneDuration ==
    pc = "scene" =>
        \A k \in 1..Len(scenes) :
            IF req.method = "sampling"
            THEN IF k < Len(scenes)
                 THEN scenes[k].duration = req.sampling_interval * TicksPerSec
                 ELSE scenes[k].duration <= req.sampling_interval * TicksPerSec
            ELSE scenes[k].duration >= MinimumOf(req.method)

\* C14, amended: every scene that ends before the end of the video lasts at
\* least the minimum of its strategy (exactly the interval, for the sampling
\* strategy); nothing is promised for a scene that ends at the video's end.
C14_MinimumBeforeEnd ==
    pc = "scene" =>
        \A k \in 1..Len(scenes) :
            scenes[k].end < video.duration =>
                IF req.method = "sampling"
                THEN scenes[k].duration = req.sampling_interval * TicksPerSec
                ELSE scenes[k].duration >= MinimumOf(req.method)

C14_Witness ==
    /\ pc = "scene"
    /\ req.method = "ffmpeg"
    /\ Len(scenes) = 2
    /\ scenes[1].end < video.duration
    /\ scenes[1].duration >= MinimumOf("ffmpeg")
    /\ scenes[2].duration < MinimumOf("ffmpeg")

\* The FFmpeg strategy has segmented the 10s file, both cuts on its stderr.
CloseCutsSegmented ==
    /\ pc = "scene"
    /\ req.method = "ffmpeg"
    /\ video = CloseCutsVideo
    /\ ffmpeg_runs[Len(ffmpeg_runs)].returncode = 0

\* C15 as stated: with cuts reported at 1.0s and 1.5s on a 10s video the FFmpeg
\* strategy returns the two scenes [0, 1.5) and [1.5, 10).
C15_CloseCutsMerged ==
    CloseCutsSegmented =>
        LET cut == (3 * TicksPerSec) \div 2
            d == 10 * TicksPerSec
        IN scenes = <<Scene(0, cut, cut), Scene(cut, d, d - cut)>>

\* C15, amended: both cuts are less than 2.0s after the start of the video, the
\* only boundary accepted so far, so both are discarded and the result is the
\* single scene [0, 10].
C15_CloseCutsDiscarded ==
    CloseCutsSegmented =>
        scenes = <<Scene(0, 10 * TicksPerSec, 10 * TicksPerSec)>>

C15_Witness ==
    /\ CloseCutsSegmented
    /\ Len(scenes) = 1
    /\ ~ffmpeg_gpu_args

\* The while loop of extract_scenes_sampling has ended: `scenes` is what the
\* strategy returns.
SamplingReturns ==
    /\ pc = "sampling_loop"
    /\ ~(current < video.duration)

\* C16: with a (positive) interval I and duration D the sampling strategy
\* returns ceil(D / I) scenes, scene k starting at (k - 1) * I; all but the last
\* last I and the last lasts D mod I, or I when I divides D.  For D = 90 and
\* I = 30 these are [0, 30), [30, 60) and [60, 90).
C16_FixedIntervalScenes ==
    (SamplingReturns /\ req.sampling_interval >= 1) =>
        LET I == req.sampling_interval * TicksPerSec
            D == video.duration
            n == (D + I - 1) \div I
        IN /\ Len(scenes) = n
           /\ \A k \in 1..n : scenes[k].start = (k - 1) * I
           /\ \A k \in 1..(n - 1) :
                scenes[k] = Scene((k - 1) * I, k * I, I)
           /\ n >= 1 => /\ scenes[n].end = D
                        /\ scenes[n].duration = IF D % I = 0 THEN I ELSE D % I
           /\ (video = NinetySecondVideo /\ req.sampling_interval = 30) =>
                scenes = [k \in 1..3 |->
                             Scene((k - 1) * 30 * TicksPerSec, k * 30 * TicksPerSec,
                                   30 * TicksPerSec)]

C16_Witness ==
    /\ SamplingReturns
    /\ video = NinetySecondVideo
    /\ req.sampling_interval = 30
    /\ Len(scenes) = 3

\* The strategy has nothing to cut at: every reported cut is less than the
\* minimum after the start of the video (so none is accepted, the cursor never
\* leaving 0), or, for the sampling strategy, the video is no longer than one
\* interval.
ZeroBoundaries ==
    IF req.method = "sampling"
    THEN \/ video.duration = 0
         \/ /\ req.sampling_interval >= 1
            /\ req.sampling_interval * TicksPerSec >= video.duration
    ELSE \A k \in 1..Len(video.cuts) : video.cuts[k] < MinimumOf(req.method)

\* The strategy has returned its scenes (a request blocked in the frame loop
\* has; one blocked in the segmentation has no timestamps yet).
SegmentationCompleted ==
    /\ pc \notin {"idle", "segment", "sampling_loop"}
    /\ fault \notin {"input", "segmentation"}
    /\ pc = "blocked" => timestamps # <<>>

\* C17: when the strategy completes without an accepted boundary the scene loop
\* is given exactly the one scene [0, D], for every D, 0 included, and a 200
\* response counts one scene; the scene list given to the loop is never empty.
C17_WholeVideoFallback ==
    SegmentationCompleted =>
        /\ Len(scenes) >= 1
        /\ ZeroBoundaries =>
            /\ scenes = <<Scene(0, video.duration, video.duration)>>
            /\ status = 200 => /\ response.scene_count = 1
                               /\ Len(response.scenes) = 1
                               /\ response.scenes[1].start = 0
                               /\ response.scenes[1].end = video.duration

C17_Witness ==
    /\ pc = "done"
    /\ status = 200
    /\ req.method = "ffmpeg"
    /\ video.duration = 0
    /\ video.cuts = <<1>>
    /\ response.scene_count = 1

\* The scores the collaborators reported for the frames of the last sampled
\* scene: one pair <<frame, score>> for every 200 body that holds the score.
ReportedNudity ==
    {<<c.frame, c.body.nudity>> :
        c \in {d \in calls : d.op = "nsfw" /\ d.outcome = "ok"
                              /\ "nudity" \in DOMAIN d.body}}

ReportedImmodesty ==
    {<<c.frame, c.body.immodesty>> :
        c \in {d \in calls : d.op = "nsfw" /\ d.outcome = "ok"
                              /\ "immodesty" \in DOMAIN d.body}}

ReportedViolence ==
    {<<c.frame, IF c.body.kind = "map" THEN c.body.general_violence ELSE c.body.violence>> :
        c \in {d \in calls : d.op = "violence" /\ d.outcome = "ok"
                              /\ \/ "violence" \in DOMAIN d.body
                                 \/ "general_violence" \in DOMAIN d.body}}

\* The last scene has been aggregated and `calls` still holds its frames.
SceneAggregated ==
    /\ pc \in {"scene", "done"}
    /\ Len(results) >= 1
    /\ Len(sceneLog) = Len(results)

\* C18: each of a scene's nudity, immodesty and violence values is the mean of
\* the scores reported for its frames, a frame that reported no score for the
\* axis not being counted (in particular not as a zero), and the confidence is
\* the largest of the three means.
C18_MeanOfReported ==
    SceneAggregated =>
        LET a == results[Len(results)].analysis
        IN /\ a.nudity = MeanOfLogged(ReportedNudity)
           /\ a.immodesty = MeanOfLogged(ReportedImmodesty)
           /\ a.violence = MeanOfLogged(ReportedViolence)
           /\ a.confidence = FracMax(FracMax(a.nudity, a.violence), a.immodesty)

One == <<100, 1>>

InUnitInterval(x) == FracLeq(Zero, x) /\ FracLeq(x, One)

AnalysisInRange(a) ==
    /\ InUnitInterval(a.nudity)
    /\ InUnitInterval(a.immodesty)
    /\ InUnitInterval(a.violence)
    /\ InUnitInterval(a.confidence)

\* C19: every field of the analysis of every scene result, in the scene loop
\* and in the 200 response, lies in [0, 1].
C19_ScoresInUnitInterval ==
    /\ \A k \in 1..Len(results) : AnalysisInRange(results[k].analysis)
    /\ \A k \in 1..Len(response.scenes) : AnalysisInRange(response.scenes[k].analysis)

\* C19 witness: a scene both frames of which were scored 0.95 for nudity.
C19_Witness ==
    /\ pc = "done"
    /\ status = 200
    /\ Len(response.scenes) >= 1
    /\ Len(nudity_scores) = 2
    /\ response.scenes[Len(response.scenes)].analysis.nudity = <<95, 1>>
    /\ response.scenes[Len(response.scenes)].analysis.confidence = <<95, 1>>

\* This request holds a frame file: it has written it and not yet deleted it.
HoldsFrame == pc \in {"nsfw", "violence", "remove"}

\* C20: no temp frame path that one of two concurrent requests writes, reads or
\* deletes is written, read or deleted by the other: the frame file a request
\* holds is none the other request has touched.
C20_FramePathsNotShared ==
    (HoldsFrame /\ peer.pc # "idle") =>
        frame_path(i, timestamps[j]) \notin peer.touched

\* C21: no request is stalled for ever by an external program that does not
\* answer: every call the handler waits in carries a timeout, so the handler is
\* never left blocked in one.
C21_NeverBlocked == pc # "blocked"

\* C22: every request reaches its response, whatever method, sampling_interval
\* and sample_count it names.  The scene loop and the frame loop run over
\* finite lists; the request can fail to end only in the while loop of
\* extract_scenes_sampling, which is left when current >= duration: every
\* iteration of that loop moves current forward.
C22_SamplingLoopAdvances == [][SamplingIter => current' > current]_vars

\* The cut detection has run to its end and every cut of the file was
\* reported to the window loop.
CutsReported ==
    /\ pc = "scene"
    /\ req.method # "sampling"
    /\ req.method = "ffmpeg" => ffmpeg_runs[Len(ffmpeg_runs)].returncode = 0

\* The boundary accepted last before cut k, given the accepted indices S.
BoundaryBefore(ts, S, k) ==
    IF \E m \in S : m < k
    THEN ts[CHOOSE m \in S : m < k /\ \A o \in S : o < k => o <= m]
    ELSE 0

\* The indices of the accepted cuts: the one set in which a cut lies exactly
\* when it is at least min_len after the boundary accepted before it.
AcceptedCuts(ts, min_len) ==
    CHOOSE S \in SUBSET (1..Len(ts)) :
        \A k \in 1..Len(ts) : k \in S <=> ts[k] - BoundaryBefore(ts, S, k) >= min_len

\* The accepted boundaries in order, the start of the video first.
AcceptedBoundaries(ts, min_len) ==
    LET S == AcceptedCuts(ts, min_len)
        nth(k) == CHOOSE x \in S : Cardinality({y \in S : y <= x}) = k
    IN <<0>> \o [k \in 1..Cardinality(S) |-> ts[nth(k)]]

\* C23: a reported cut is accepted exactly when it lies at least the minimum of
\* the strategy (2.0s FFmpeg, 1.0s TransNetV2) after the boundary accepted
\* before it, the start of the video at first; a cut that is not accepted
\* changes nothing.  The scenes start at the accepted boundaries, in order (the
\* last boundary starts a scene only when it lies before the end of the video),
\* and no two accepted boundaries are closer than the minimum.
C23_AcceptanceRule ==
    CutsReported =>
        LET b == AcceptedBoundaries(video.cuts, MinimumOf(req.method))
            n == Len(b)
            starts == IF n >= 2 /\ b[n] >= video.duration THEN SubSeq(b, 1, n - 1) ELSE b
        IN /\ [k \in 1..Len(scenes) |-> scenes[k].start] = starts
           /\ \A k \in 1..(n - 1) : b[k + 1] - b[k] >= MinimumOf(req.method)
           /\ \A k \in 1..(Len(scenes) - 1) :
                scenes[k].end = Min(b[k + 1], video.duration)

C23_Witness ==
    /\ CutsReported
    /\ req.method = "ffmpeg"
    /\ Len(video.cuts) = 3
    /\ AcceptedCuts(video.cuts, MinimumOf("ffmpeg")) = {2}
    /\ Len(scenes) = 2

\* The runs of one transcoder call: at most two; the first with hardware decode
\* exactly when the GPU is asked for and the probe found CUDA; a second one,
\* without hardware decode, exactly when the first used it and exited non-zero.
AtMostOneRetry(runs) ==
    /\ Len(runs) \in {1, 2}
    /\ runs[1].hwaccel <=> (USE_GPU /\ ffmpeg_cuda_available)
    /\ Len(runs) = 2 <=> (runs[1].hwaccel /\ runs[1].returncode > 0)
    /\ Len(runs) = 2 => ~runs[2].hwaccel

\* The extraction of the frame in hand raised.
ExtractionRaised ==
    \E c \in calls : c.op = "extract" /\ c.outcome = "raised" /\ c.frame = j - 1

\* C24: the scene-cut detection and every frame extraction run FFmpeg at most
\* twice, as AtMostOneRetry says, and a frame extraction raises only when every
\* run it made failed: a failed hardware run alone never raises.
C24_HardwareRetry ==
    /\ ffmpeg_runs # <<>> => AtMostOneRetry(ffmpeg_runs)
    /\ extract_runs # <<>> => AtMostOneRetry(extract_runs)
    /\ (pc = "frame" /\ extract_runs # <<>> /\ ExtractionRaised) =>
        \A k \in 1..Len(extract_runs) : extract_runs[k].returncode # 0
    /\ pc = "nsfw" => extract_runs[Len(extract_runs)].returncode = 0

\* C24 witness: the hardware run of an extraction failed, the software run
\* succeeded, and the frame goes on to be scored.
C24_Witness ==
    /\ pc = "nsfw"
    /\ Len(extract_runs) = 2
    /\ extract_runs[1] = Run(TRUE, 1)
    /\ extract_runs[2] = Run(FALSE, 0)
    /\ Len(ffmpeg_runs) = 2

AllRuns == {ffmpeg_runs[k] : k \in 1..Len(ffmpeg_runs)}
               \cup {extract_runs[k] : k \in 1..Len(extract_runs)}

\* C25: a hardware probe that fails leaves an empty accelerator list and
\* cuda-available false, the service starts all the same, and no FFmpeg run of
\* any request is made with hardware decode, whether the GPU is asked for or
\* not.
C25_ProbeFailureIsSoft ==
    probe.exit = "failed" =>
        /\ ffmpeg_hwaccels = <<>>
        /\ ~ffmpeg_cuda_available
        /\ \A r \in AllRuns : ~r.hwaccel

\* C25 witness: the probe failed, the GPU is asked for, and a request has run
\* FFmpeg for its segmentation and for a frame.
C25_Witness ==
    /\ probe.exit = "failed"
    /\ USE_GPU
    /\ ffmpeg_runs # <<>>
    /\ extract_runs # <<>>
    /\ pc = "done"
    /\ status = 200

\* Step `op` of frame k of the scene in hand has finished without raising.
Finished(k, op) == \E c \in calls : c.frame = k /\ c.op = op /\ c.outcome # "raised"

\* Step `op` of frame k of the scene in hand has been made.
Begun(k, op) == \E c \in calls : c.frame = k /\ c.op = op

\* Where the request stands in the fixed order of the steps.
StepOrder ==
    /\ InFrameLoop => /\ i <= Len(scenes)
                      /\ Len(results) = i - 1
                      /\ \A c \in calls : c.frame <= j
    /\ pc = "frame" => \A c \in calls : c.frame < j
    /\ pc \in {"nsfw", "violence", "remove"} =>
        /\ j <= Len(timestamps)
        /\ Finished(j, "extract")
        /\ frame_path(i, timestamps[j]) \in files
    /\ pc = "nsfw" => ~Begun(j, "nsfw") /\ ~Begun(j, "violence")
    /\ pc = "violence" => Finished(j, "nsfw") /\ ~Begun(j, "violence")
    /\ pc = "remove" => Finished(j, "nsfw") /\ Finished(j, "violence")

\* What one step may change: the next scene only when every frame of this one
\* is done, the next frame only, and a file deleted only when it is the frame
\* in hand and both of its scoring calls have finished.
StepMoves ==
    /\ i' # i => i' = i + 1 /\ pc = "frame" /\ j > Len(timestamps)
    /\ j' # j => j' = j + 1 \/ (pc = "scene" /\ j' = 1)
    /\ files' # files =>
        \/ pc = "frame" /\ files' = files \cup {frame_path(i, timestamps[j])}
        \/ /\ files' = files \ {frame_path(i, timestamps[j])}
           /\ Finished(j, "nsfw")
           /\ Finished(j, "violence")

\* C26: within a request the scenes are processed one after the other, the
\* frames of a scene in sample order, and the steps of a frame in the order
\* extract, NSFW call, violence call, delete: a frame file is deleted only
\* after both of its scoring calls have finished.
C26_StrictlySequential == [](StepOrder) /\ [][StepMoves]_vars

\* C26 witness: the first scene is done, and in the second a frame was
\* extracted, scored by both services and then deleted.
C26_Witness ==
    /\ pc = "frame"
    /\ i = 2
    /\ j = 2
    /\ Finished(1, "nsfw")
    /\ Finished(1, "violence")
    /\ frame_path(i, timestamps[1]) \notin files
    /\ Len(results) = 1

\* The scoring calls of the scene in hand that were answered with status 200.
Answered(op) == {c \in calls : c.op = op /\ c.outcome = "ok"}

\* The last attempt of the last session.post.
LastAttempt == attempts[Len(attempts)]

C28_ScenesInsideVideo ==
    (pc = "scene" /\ req.method # "sampling") =>
        \A k \in 1..Len(scenes) :
            /\ 0 <= scenes[k].start
            /\ scenes[k].start < scenes[k].end
            /\ scenes[k].end <= video.duration
            /\ scenes[k].duration = scenes[k].end - scenes[k].start

\* The frames of the request: scene k, sample m of it.  A scene whose sampling
\* raises has none.
FrameSlots ==
    {slot \in (1..Len(scenes)) \X (1..MaxSampleCount) :
        /\ ~sampling_raises(scenes[slot[1]], req.sample_count)
        /\ slot[2] <= Len(sample_timestamps(scenes[slot[1]], req.sample_count))}

\* The temp file of a frame.
PathOf(slot) ==
    frame_path(slot[1], sample_timestamps(scenes[slot[1]], req.sample_count)[slot[2]])

\* C29: within a request no two frames have the same temp file path: the
\* paths of all scenes and all sample timestamps are pairwise distinct (as
\* many paths as frames), and the path in use is the one of the frame in hand.
\* The scenes and the sample count are fixed once the segmentation is over, so
\* the paths are compared each time the scene loop is at its head.
C29_FramePathsDistinct ==
    /\ pc = "scene" =>
        Cardinality({PathOf(slot) : slot \in FrameSlots}) = Cardinality(FrameSlots)
    /\ InFrameLoop => timestamps = sample_timestamps(scenes[i], req.sample_count)
    /\ pc \in {"nsfw", "violence", "remove"} =>
        /\ i \in 1..Len(scenes)
        /\ j \in 1..Len(timestamps)
        /\ frame_path(i, timestamps[j]) = PathOf(<<i, j>>)

\* C29 witness: the second frame of a scene has been written, the first one
\* before it.
C29_Witness ==
    /\ pc = "nsfw"
    /\ j = 2
    /\ Begun(1, "extract")
    /\ Cardinality(FrameSlots) >= 2

\* C30: a request adds one to the request counter, and one to the error
\* counter exactly when it ends with another status than 200 (400, 404 or
\* 500): after the first request the request counter is 1 and the error
\* counter is 1 for a failure and 0 for a 200.
C30_CountersMatchOutcomes ==
    /\ pc # "idle" => REQUEST_COUNT = 1
    /\ pc = "done" => ERROR_COUNT = (IF status = 200 THEN 0 ELSE 1)

====
